---- MODULE Spec2Model ----
(***************************************************************************)
(* cargo2junit: the fold of `parse` (src/main.rs) over the lines of a      *)
(* `cargo test` JSON event stream into a junit Report, with the helpers    *)
(* it calls (line filter, serde decoding, duration resolution, name        *)
(* splitting, error detection, truncation).                                *)
(*                                                                         *)
(* Text is a sequence of one-character strings.  Option<T> is a sequence   *)
(* of length at most one: None is <<>>, Some(v) is <<v>>.                  *)
(***************************************************************************)
EXTENDS Integers, Sequences, FiniteSets, TLC

None == <<>>

Some(v) == <<v>>

IsSome(o) == Len(o) = 1

Unwrap(o) == o[1]

(***************************************************************************)
(* Text helpers (the std::str methods the program calls).                  *)
(***************************************************************************)

\* char::is_whitespace, on the characters the model uses
IsWhitespace(c) == c \in {" ", "\t", "\n", "\r"}

\* s[i..j], 1-based and inclusive; empty when j < i
Slice(s, i, j) == [k \in 1..(j - i + 1) |-> s[i + k - 1]]

\* number of leading whitespace characters of s
RECURSIVE LeadingWs(_)
LeadingWs(s) ==
    IF s = <<>> \/ ~IsWhitespace(Head(s)) THEN 0 ELSE 1 + LeadingWs(Tail(s))

\* number of trailing whitespace characters of s
RECURSIVE TrailingWs(_)
TrailingWs(s) ==
    IF s = <<>> \/ ~IsWhitespace(s[Len(s)]) THEN 0
    ELSE 1 + TrailingWs(Slice(s, 1, Len(s) - 1))

\* str::trim
Trim(s) ==
    IF LeadingWs(s) = Len(s) THEN <<>>
    ELSE Slice(s, LeadingWs(s) + 1, Len(s) - TrailingWs(s))

\* line.chars().find(|c| !c.is_whitespace())
FirstNonWhitespace(s) ==
    IF LeadingWs(s) = Len(s) THEN None ELSE Some(s[LeadingWs(s) + 1])

\* str::replace("\\", "\\\\"): every backslash becomes two
RECURSIVE ReplaceBackslash(_)
ReplaceBackslash(s) ==
    IF s = <<>> THEN <<>>
    ELSE IF Head(s) = "\\" THEN <<"\\", "\\">> \o ReplaceBackslash(Tail(s))
    ELSE <<Head(s)>> \o ReplaceBackslash(Tail(s))

\* str::split("::"): the pieces between non-overlapping separators, scanning
\* from the left; cur is the piece being collected
RECURSIVE SplitFrom(_, _)
SplitFrom(s, cur) ==
    IF s = <<>> THEN <<cur>>
    ELSE IF Len(s) >= 2 /\ s[1] = ":" /\ s[2] = ":"
         THEN <<cur>> \o SplitFrom(Slice(s, 3, Len(s)), <<>>)
    ELSE SplitFrom(Tail(s), Append(cur, Head(s)))

\* [&str]::join("::")
RECURSIVE JoinParts(_)
JoinParts(parts) ==
    IF parts = <<>> THEN <<>>
    ELSE IF Len(parts) = 1 THEN parts[1]
    ELSE parts[1] \o <<":", ":">> \o JoinParts(Tail(parts))

\* split_name with the first segment taken for the name
split_name_first(full_name) ==
    LET parts == SplitFrom(full_name, <<>>)
    IN  [name |-> parts[1],
         module_path |-> JoinParts(Slice(parts, 2, Len(parts)))]

\* split_name: (name, module_path)
split_name(full_name) ==
    LET parts == SplitFrom(full_name, <<>>)
    IN  [name |-> parts[Len(parts)],
         module_path |-> JoinParts(Slice(parts, 1, Len(parts) - 1))]

Digit(d) == <<"0", "1", "2", "3", "4", "5", "6", "7", "8", "9">>[d + 1]

\* the decimal text of a usize, as format!("{}", n) prints it
RECURSIVE ToDecimal(_)
ToDecimal(n) ==
    IF n < 10 THEN <<Digit(n)>> ELSE ToDecimal(n \div 10) \o <<Digit(n % 10)>>

(***************************************************************************)
(* Numbers.  A decimal number (a JSON number token, or the text handed to  *)
(* f64::parse) is [sign, units, scale]: sign * units / 10^scale.  The      *)
(* model keeps to values whose f64 product with 1e6 or 1e9 is the exact    *)
(* decimal product, and to results that fit the 32-bit integers of TLC.    *)
(***************************************************************************)

RECURSIVE Pow10(_)
Pow10(k) == IF k = 0 THEN 1 ELSE 10 * Pow10(k - 1)

Dec(sign, units, scale) == [sign |-> sign, units |-> units, scale |-> scale]

\* (x * 10^e) as i64: the product, truncated toward zero
ScaleToInt(x, e) ==
    x.sign * (IF x.scale <= e THEN x.units * Pow10(e - x.scale)
              ELSE x.units \div Pow10(x.scale - e))

\* (seconds * 1_000_000_000.0) as i64
NanosOfSeconds(x) == ScaleToInt(x, 9)

\* (ms * 1_000_000.0) as i64
NanosOfMillis(x) == ScaleToInt(x, 6)

\* integer division truncating toward zero, as Rust's / on i64
QuotTrunc(a, b) == IF a >= 0 THEN a \div b ELSE -((-a) \div b)

IsDigit(c) == c \in {"0", "1", "2", "3", "4", "5", "6", "7", "8", "9"}

DigitValue(c) ==
    CASE c = "0" -> 0 [] c = "1" -> 1 [] c = "2" -> 2 [] c = "3" -> 3
      [] c = "4" -> 4 [] c = "5" -> 5 [] c = "6" -> 6 [] c = "7" -> 7
      [] c = "8" -> 8 [] c = "9" -> 9

\* the value of a run of digits
RECURSIVE DigitsValue(_)
DigitsValue(s) ==
    IF s = <<>> THEN 0
    ELSE 10 * DigitsValue(Slice(s, 1, Len(s) - 1)) + DigitValue(s[Len(s)])

\* position of the first "." of s, or 0
RECURSIVE DotAt(_, _)
DotAt(s, i) ==
    IF i > Len(s) THEN 0 ELSE IF s[i] = "." THEN i ELSE DotAt(s, i + 1)

\* str::parse::<f64> on sign, digits and one optional point (the model's
\* texts hold no exponent, "inf" or "nan"): None is the parse error
ParseF64(s) ==
    LET signed == s # <<>> /\ s[1] \in {"+", "-"}
        sign == IF signed /\ s[1] = "-" THEN -1 ELSE 1
        body == IF signed THEN Tail(s) ELSE s
        dot == DotAt(body, 1)
        int == IF dot = 0 THEN body ELSE Slice(body, 1, dot - 1)
        frac == IF dot = 0 THEN <<>> ELSE Slice(body, dot + 1, Len(body))
    IN  IF /\ Len(int) + Len(frac) > 0
           /\ \A i \in 1..Len(int) : IsDigit(int[i])
           /\ \A i \in 1..Len(frac) : IsDigit(frac[i])
        THEN Some(Dec(sign, DigitsValue(int \o frac), Len(frac)))
        ELSE None

(***************************************************************************)
(* Durations and instants are integers of nanoseconds.                     *)
(***************************************************************************)

\* trunc that hands the duration back as it came
trunc_kept(precision, duration) == duration

\* DurationPrecision::trunc
trunc(precision, duration) ==
    IF precision = "MilliSeconds"
    THEN QuotTrunc(duration, 1000) * 1000
    ELSE QuotTrunc(duration, 1000000000) * 1000000000

\* TestCaseDetail::get_duration
detail_get_duration(detail, now) == now - detail.start_time

\* Event::get_duration of a test event: [panic |-> TRUE] where the code
\* panics, else [panic |-> FALSE, value |-> Option<Duration>]
get_duration(e) ==
    IF e.variant = "TestStringTime"
    THEN IF IsSome(e.exec_time)
         THEN LET s == Unwrap(e.exec_time)
              IN  IF s = <<>> \/ s[Len(s)] # "s"
                  THEN [panic |-> TRUE, value |-> None]
                  ELSE LET seconds == ParseF64(Slice(s, 1, Len(s) - 1))
                       IN  IF IsSome(seconds)
                           THEN [panic |-> FALSE,
                                 value |-> Some(NanosOfSeconds(Unwrap(seconds)))]
                           ELSE [panic |-> TRUE, value |-> None]
         ELSE IF IsSome(e.duration)
         THEN [panic |-> FALSE, value |-> Some(NanosOfMillis(Unwrap(e.duration)))]
         ELSE [panic |-> FALSE, value |-> None]
    ELSE IF IsSome(e.exec_time)
         THEN [panic |-> FALSE, value |-> Some(NanosOfSeconds(Unwrap(e.exec_time)))]
         ELSE IF IsSome(e.duration)
         THEN [panic |-> FALSE, value |-> Some(NanosOfMillis(Unwrap(e.duration)))]
         ELSE [panic |-> FALSE, value |-> None]

(***************************************************************************)
(* Captured output: detect_error and truncate.                             *)
(***************************************************************************)

\* the regex [\n^]([Ee]rror: .+)$ matches t from position i: one character
\* that is a newline or a caret, the word, and then one or more characters
\* other than newline up to the end of the text ($ without multi-line mode)
RegexMatchesAt(t, i) ==
    /\ i + 8 <= Len(t)
    /\ t[i] \in {"\n", "^"}
    /\ t[i + 1] \in {"E", "e"}
    /\ Slice(t, i + 2, i + 7) = <<"r", "r", "o", "r", ":", " ">>
    /\ \A k \in (i + 8)..Len(t) : t[k] # "\n"

\* Regex::find: the leftmost match, as Option<text of the match>
RegexFind(t) ==
    LET hits == {i \in 1..Len(t) : RegexMatchesAt(t, i)}
    IN  IF hits = {} THEN None
        ELSE LET first == CHOOSE i \in hits : \A j \in hits : i <= j
             IN  Some(Slice(t, first, Len(t)))

\* detect_error with the text of stderr trimmed as the match of stdout is
detect_error_trimmed(stdout, stderr) ==
    IF IsSome(stderr) /\ Trim(Unwrap(stderr)) # <<>>
    THEN Some(Trim(Unwrap(stderr)))
    ELSE IF IsSome(stdout) /\ IsSome(RegexFind(Unwrap(stdout)))
    THEN Some(Trim(Unwrap(RegexFind(Unwrap(stdout)))))
    ELSE None

\* detect_error
detect_error(stdout, stderr) ==
    IF IsSome(stderr) /\ Trim(Unwrap(stderr)) # <<>>
    THEN Some(Unwrap(stderr))
    ELSE IF IsSome(stdout) /\ IsSome(RegexFind(Unwrap(stdout)))
    THEN Some(Trim(Unwrap(RegexFind(Unwrap(stdout)))))
    ELSE None

truncated_msg ==
    <<"[", ".", ".", ".", "T", "R", "U", "N", "C", "A", "T", "E", "D",
      ".", ".", ".", "]">>

\* truncate, on one-byte characters.  With max_len below the marker length
\* the usize subtraction overflows: a build with overflow checks panics on
\* it, a build without wraps to a half of at least 2^63 - 9, which split_at
\* rejects with a panic as it exceeds every text length; both abort.
truncate(s, max_len) ==
    IF Len(s) > max_len
    THEN IF max_len < Len(truncated_msg)
         THEN [panic |-> TRUE, value |-> <<>>]
         ELSE LET half_max_len == (max_len - Len(truncated_msg)) \div 2
              IN  [panic |-> FALSE,
                   value |-> Slice(s, 1, half_max_len) \o <<"\n">>
                             \o truncated_msg \o <<"\n">>
                             \o Slice(s, Len(s) - half_max_len + 1, Len(s))]
    ELSE [panic |-> FALSE, value |-> s]

(***************************************************************************)
(* Lines and their decoding.  A line is [head, members]: head is the text  *)
(* the line begins with (the whole line when members is None), members     *)
(* the members of the JSON object that follows the head's "{".  Texts of   *)
(* members are raw, as written between the quotes.  The member "type" is   *)
(* left out: no variant of the untagged Event reads it.                    *)
(***************************************************************************)

\* the text of a JSON string: None where serde_json rejects it (an escape
\* it does not know, a backslash at the end, a raw control character)
RECURSIVE Unescape(_)
Unescape(raw) ==
    IF raw = <<>> THEN Some(<<>>)
    ELSE IF Head(raw) = "\\"
    THEN IF Len(raw) < 2 \/ raw[2] \notin {"\\", "n", "t", "r", "/"}
         THEN None
         ELSE LET rest == Unescape(Slice(raw, 3, Len(raw)))
                  c == CASE raw[2] = "n" -> "\n" [] raw[2] = "t" -> "\t"
                         [] raw[2] = "r" -> "\r" [] OTHER -> raw[2]
              IN  IF IsSome(rest) THEN Some(<<c>> \o Unwrap(rest)) ELSE None
    ELSE IF Head(raw) \in {"\n", "\t", "\r"} THEN None
    ELSE LET rest == Unescape(Tail(raw))
         IN  IF IsSome(rest) THEN Some(<<Head(raw)>> \o Unwrap(rest)) ELSE None

\* Option<raw text> to Option<text>, given that the raw text unescapes
UnescapeOpt(o) == IF IsSome(o) THEN Some(Unwrap(Unescape(Unwrap(o)))) ELSE None

\* an optional raw text is absent or a valid JSON string
ValidOpt(o) == IsSome(o) => IsSome(Unescape(Unwrap(o)))

\* serde_json::from_str::<Event>: [ok |-> TRUE, event] or [ok |-> FALSE, err].
\* The untagged Event tries Suite, then TestStringTime, then TestFloatTime.
from_str(l) ==
    IF ~IsSome(l.members) THEN [ok |-> FALSE, err |-> "syntax"]
    ELSE LET m == Unwrap(l.members)
             ex == m.exec_time
             tag == IF IsSome(m.event) THEN Unwrap(m.event) ELSE "missing"
             test == [tag |-> tag,
                      name |-> IF IsSome(m.name) THEN Unwrap(Unescape(Unwrap(m.name)))
                               ELSE <<>>,
                      stdout |-> UnescapeOpt(m.stdout),
                      stderr |-> UnescapeOpt(m.stderr)]
         IN  IF ~(/\ ValidOpt(m.name) /\ ValidOpt(m.stdout) /\ ValidOpt(m.stderr)
                  /\ (IsSome(ex) /\ Unwrap(ex).kind = "string")
                         => IsSome(Unescape(Unwrap(ex).text)))
             THEN [ok |-> FALSE, err |-> "invalid escape"]
             ELSE IF \/ tag = "started" /\ IsSome(m.test_count)
                     \/ tag \in {"ok", "failed"} /\ IsSome(m.passed) /\ IsSome(m.failed)
             THEN [ok |-> TRUE,
                   event |-> [variant |-> "Suite", event |-> test,
                              duration |-> None, exec_time |-> None]]
             ELSE IF /\ tag \in {"started", "ok", "failed", "ignored", "timeout"}
                     /\ IsSome(m.name)
             THEN IF ~IsSome(ex)
                  THEN [ok |-> TRUE,
                        event |-> [variant |-> "TestStringTime", event |-> test,
                                   duration |-> m.duration, exec_time |-> None]]
                  ELSE IF Unwrap(ex).kind = "string"
                  THEN [ok |-> TRUE,
                        event |-> [variant |-> "TestStringTime", event |-> test,
                                   duration |-> m.duration,
                                   exec_time |-> Some(Unwrap(Unescape(Unwrap(ex).text)))]]
                  ELSE [ok |-> TRUE,
                        event |-> [variant |-> "TestFloatTime", event |-> test,
                                   duration |-> m.duration,
                                   exec_time |-> Some(Unwrap(ex).num)]]
             ELSE [ok |-> FALSE, err |-> "no variant"]

\* Option<raw text> with every backslash doubled
ReplaceOpt(o) == IF IsSome(o) THEN Some(ReplaceBackslash(Unwrap(o))) ELSE None

\* line.replace("\\", "\\\\") on the pieces of a line
ReplaceLine(l) ==
    [head |-> ReplaceBackslash(l.head),
     members |->
        IF ~IsSome(l.members) THEN None
        ELSE LET m == Unwrap(l.members)
             IN  Some([m EXCEPT
                    !.name = ReplaceOpt(m.name),
                    !.stdout = ReplaceOpt(m.stdout),
                    !.stderr = ReplaceOpt(m.stderr),
                    !.exec_time =
                        IF IsSome(m.exec_time)
                        THEN Some([Unwrap(m.exec_time) EXCEPT
                                     !.text = ReplaceBackslash(@)])
                        ELSE None])]

\* Skipped with the test on any "{" of the line instead of its first
\* character that is not whitespace
SkippedUnlessBrace(l) == \A i \in 1..Len(l.head) : l.head[i] # "{"

\* the line filter of parse: TRUE when the line is skipped
Skipped(l) == FirstNonWhitespace(l.head) # Some("{")

\* Decode with the backslashes doubled before the first attempt
DecodeRepairsFirst(l) ==
    LET retry == from_str(ReplaceLine(l))
    IN  IF retry.ok THEN retry
        ELSE [ok |-> FALSE,
              err |-> [line |-> ReplaceLine(l), orig_err |-> from_str(l).err]]

\* the decoding of an accepted line in parse: the direct attempt, and on its
\* failure one retry on the line with its backslashes doubled
Decode(l) ==
    LET direct == from_str(l)
    IN  IF direct.ok THEN direct
        ELSE LET retry == from_str(ReplaceLine(l))
             IN  IF retry.ok THEN retry
                 ELSE [ok |-> FALSE,
                       err |-> [line |-> ReplaceLine(l), orig_err |-> direct.err]]

(***************************************************************************)
(* The input lines the model draws from.                                   *)
(***************************************************************************)

NoMembers ==
    [event |-> None, test_count |-> None, passed |-> None, failed |-> None,
     name |-> None, stdout |-> None, stderr |-> None, duration |-> None,
     exec_time |-> None]

\* a line that holds text only
TextLine(text) == [head |-> text, members |-> None]

\* a line that holds a JSON object, after the whitespace lead
ObjectLine(lead, m) == [head |-> lead \o <<"{">>, members |-> Some(m)]

ExecString(text) == Some([kind |-> "string", text |-> text, num |-> Dec(1, 0, 0)])

ExecNumber(num) == Some([kind |-> "number", text |-> <<>>, num |-> num])

SuiteLine(tag) ==
    ObjectLine(<<>>,
        IF tag = "started"
        THEN [NoMembers EXCEPT !.event = Some(tag), !.test_count = Some(1)]
        ELSE [NoMembers EXCEPT !.event = Some(tag), !.passed = Some(1),
                               !.failed = Some(0)])

TestLine(tag, name) ==
    ObjectLine(<<>>, [NoMembers EXCEPT !.event = Some(tag), !.name = Some(name)])

\* a test line with its duration members
TimedLine(tag, name, duration, exec_time) ==
    ObjectLine(<<>>, [NoMembers EXCEPT !.event = Some(tag), !.name = Some(name),
                                      !.duration = duration,
                                      !.exec_time = exec_time])

\* a "failed" test line with its captured output
FailedLine(name, stdout, stderr) ==
    ObjectLine(<<" ">>, [NoMembers EXCEPT !.event = Some("failed"),
                                         !.name = Some(name),
                                         !.stdout = stdout, !.stderr = stderr])

NameT == <<"t">>

NameMT == <<"m", ":", ":", "t">>

Names == {NameT, NameMT}

\* lines the filter drops: empty, whitespace only, build output
TextLines == {TextLine(<<>>), TextLine(<<" ", "\t">>), TextLine(<<" ", "o", "k", "{">>)}

\* lines the filter accepts and the decoder rejects on both attempts
GarbageLines ==
    {TextLine(<<"{", "g", "}">>),
     ObjectLine(<<>>, [NoMembers EXCEPT !.event = Some("ok")])}

SuiteLines == {SuiteLine("started"), SuiteLine("ok"), SuiteLine("failed")}

TestTags == {"started", "ok", "failed", "ignored", "timeout"}

PlainTestLines == {TestLine(tag, n) : tag \in TestTags, n \in Names}

\* an exec_time text without its "s": get_duration panics
BadExecLine == TimedLine("timeout", NameT, None, ExecString(<<"1", ".", "5">>))

\* a name with a backslash the producer left unescaped
BackslashLine == TestLine("started", <<"t", "\\", "q">>)

\* the lines of the fold's specification
FoldLines ==
    TextLines \cup GarbageLines \cup SuiteLines \cup PlainTestLines
        \cup {BadExecLine, BackslashLine}

\* 1.2345678 ms; "1.5s" next to 3 ms; 0.072 s
TimedLines ==
    {TimedLine("ok", NameT, Some(Dec(1, 12345678, 7)), None),
     TimedLine("ok", NameT, Some(Dec(1, 3, 0)), ExecString(<<"1", ".", "5", "s">>)),
     TimedLine("ok", NameT, None, ExecNumber(Dec(1, 72, 3))),
     TimedLine("failed", NameT, Some(Dec(1, 12345678, 7)), None),
     TimedLine("failed", NameT, None, ExecString(<<"1", ".", "5", "s">>))}

\* the lines of the durations' specification
TimeLines ==
    {TextLine(<<>>), TextLine(<<"{", "g", "}">>), BadExecLine}
        \cup SuiteLines \cup {TestLine(tag, NameT) : tag \in TestTags}
        \cup TimedLines

\* a name with the escape \n, which decodes as it is
EscapedLine == TestLine("started", <<"t", "\\", "n">>)

\* a name with the escape \n and a backslash left unescaped
MixedLine == TestLine("started", <<"\\", "n", "\\", "q">>)

\* an object of no variant with a backslash left unescaped: the two attempts
\* fail for different reasons
NoVariantLine ==
    ObjectLine(<<>>, [NoMembers EXCEPT !.event = Some("bogus"),
                                      !.name = Some(<<"\\", "q">>)])

\* the lines of the decoder's specification
DecodeLines ==
    {TextLine(<<>>), TextLine(<<"{", "\\", "}">>), BadExecLine, BackslashLine,
     EscapedLine, MixedLine, NoVariantLine}
        \cup GarbageLines \cup SuiteLines
        \cup {TestLine(tag, NameT) : tag \in TestTags}

\* captured output as the line spells it: x\nError: b
OutLast == <<"x", "\\", "n", "E", "r", "r", "o", "r", ":", " ", "b">>

\* x\nError: b\ny
OutMid == OutLast \o <<"\\", "n", "y">>

\* Error: b
OutFirst == <<"E", "r", "r", "o", "r", ":", " ", "b">>

\* x\nError: a\nerror: b
OutTwo ==
    <<"x", "\\", "n", "E", "r", "r", "o", "r", ":", " ", "a",
      "\\", "n", "e", "r", "r", "o", "r", ":", " ", "b">>

\* 22 characters without a newline
OutLong == [i \in 1..22 |-> IF i <= 11 THEN "a" ELSE "z"]

ErrBlank == <<" ">>

ErrPanic == <<" ", "p", " ">>

\* the "failed" lines of the output's specification
OutputFailedLines ==
    {FailedLine(NameT, Some(OutLast), None),
     FailedLine(NameT, Some(OutMid), None),
     FailedLine(NameT, Some(OutFirst), None),
     FailedLine(NameT, Some(OutTwo), Some(ErrBlank)),
     FailedLine(NameT, Some(OutLast), Some(ErrPanic)),
     FailedLine(NameT, Some(OutLong), Some(ErrBlank)),
     FailedLine(NameT, None, Some(ErrPanic))}

\* the lines of the output's specification
OutputLines ==
    {TextLine(<<>>), TextLine(<<"{", "g", "}">>), BadExecLine}
        \cup SuiteLines \cup {TestLine(tag, NameT) : tag \in TestTags}
        \cup OutputFailedLines

Lines == FoldLines \cup TimeLines \cup DecodeLines \cup OutputLines

\* what each line decodes to, and whether the filter drops it
DecodeTable == [l \in Lines |-> Decode(l)]

SkipTable == [l \in Lines |-> Skipped(l)]

Precisions == {"MilliSeconds", "LiteralSeconds"}

suite_name_prefix == <<"c", "t">>

\* bound of the model: the number of lines read from the input
MaxLines == 6

(***************************************************************************)
(* The state of one run of parse.                                          *)
(***************************************************************************)

VARIABLES
    env,                  \* the lines the input may hold, the instants the
                          \* wall clock may show
    precision,            \* parameter: DurationPrecision
    max_out_len,          \* parameter: maximum length of captured text
    line,                 \* the line read last
    n_read,               \* number of lines read from the input
    r,                    \* the Report: sequence of completed suites
    suite_index,          \* index of the next suite
    current_suite_maybe,  \* Option<TestSuite>
    tests,                \* pending tests: name -> TestCaseDetail
    outcome,              \* "Running", or how parse ended and with what
    hist                  \* the events handled without abort, in order

vars ==
    <<env, precision, max_out_len, line, n_read, r, suite_index,
      current_suite_maybe, tests, outcome, hist>>

timestamp == "run start"

Running == [kind |-> "Running", report |-> <<>>, error |-> None]

\* unwinding from a failed assert!, unwrap or expect
Panicked == [kind |-> "Panic", report |-> <<>>, error |-> None]

\* NewSuite with the index taken after its increment
NewSuiteNextIndex(index) ==
    [name |-> suite_name_prefix \o <<" ", "#">> \o ToDecimal(index + 1),
     timestamp |-> timestamp,
     testcases |-> <<>>]

\* TestSuite::new and set_timestamp
NewSuite(index) ==
    [name |-> suite_name_prefix \o <<" ", "#">> \o ToDecimal(index),
     timestamp |-> timestamp,
     testcases |-> <<>>]

\* TestSuite::add_testcase
AddTestcase(suite, tc) == [suite EXCEPT !.testcases = Append(@, tc)]

\* HashMap::remove
MapRemove(map, key) == [k \in DOMAIN map \ {key} |-> map[k]]

\* HashMap::insert
MapInsert(map, key, value) ==
    [k \in DOMAIN map \cup {key} |-> IF k = key THEN value ELSE map[k]]

\* the TestCase built by the TestEvent::Ok arm
SuccessCase(full_name, duration) ==
    LET sp == split_name(full_name)
    IN  [name |-> sp.name, classname |-> Some(sp.module_path),
         status |-> "Success", time |-> duration, message |-> None,
         system_out |-> None, system_err |-> None]

\* the TestCase built by the TestEvent::Failed arm, before its output is set
FailureCase(full_name, duration) ==
    LET sp == split_name(full_name)
    IN  [name |-> sp.name, classname |-> Some(sp.module_path),
         status |-> "Failure", time |-> Some(duration),
         message |-> Some(<<"f", "a", "i", "l", "e", "d", " ">> \o sp.module_path
                          \o <<":", ":">> \o sp.name),
         system_out |-> None, system_err |-> None]

\* the TestCase built by the TestEvent::Ignored arm
SkippedCase(full_name) ==
    [name |-> full_name, classname |-> None, status |-> "Skipped",
     time |-> None, message |-> None, system_out |-> None,
     system_err |-> None]

\* the entry hist keeps of an event
Seen(e) ==
    [kind |-> IF e.variant = "Suite" THEN "suite" ELSE "test",
     tag |-> e.event.tag, name |-> e.event.name]

\* the locals of parse as it enters its loop
Start ==
    /\ line = TextLine(<<>>)
    /\ n_read = 0
    /\ r = <<>>
    /\ suite_index = 0
    /\ current_suite_maybe = None
    /\ tests = <<>>
    /\ outcome = Running
    /\ hist = <<>>

\* main passes MilliSeconds; the maximum stands for SYSTEM_OUT_MAX_LEN
Init ==
    /\ env = [lines |-> FoldLines, instants |-> {0}]
    /\ precision = "MilliSeconds"
    /\ max_out_len = 21
    /\ Start

\* runs over timed events, under both precisions
InitTime ==
    /\ env = [lines |-> TimeLines, instants |-> {0, 1500, 1200300400}]
    /\ precision \in Precisions
    /\ max_out_len = 21
    /\ Start

\* runs over lines that exercise the decoder
InitDecode ==
    /\ env = [lines |-> DecodeLines, instants |-> {0}]
    /\ precision = "MilliSeconds"
    /\ max_out_len = 21
    /\ Start

\* runs over failed tests with captured output, under a maximum that the
\* longest capture exceeds
InitOutput ==
    /\ env = [lines |-> OutputLines, instants |-> {0}]
    /\ precision = "MilliSeconds"
    /\ max_out_len = 21
    /\ Start

\* runs over the same lines under a maximum below the length of the marker,
\* as TEST_STDOUT_STDERR_MAX_LEN may set it
InitLimit ==
    /\ env = [lines |-> OutputLines, instants |-> {0}]
    /\ precision = "MilliSeconds"
    /\ max_out_len \in {0, 16}
    /\ Start

\* one more turn of `for line in input.lines()`
ReadLine(l) ==
    /\ outcome = Running
    /\ n_read < MaxLines
    /\ line' = l
    /\ n_read' = n_read + 1
    /\ l \in env.lines
    /\ UNCHANGED <<env, precision, max_out_len>>

\* the event of an accepted line that decodes
EventOf(l) == DecodeTable[l].event

IsEvent(l, variants, tags) ==
    /\ ~SkipTable[l]
    /\ DecodeTable[l].ok
    /\ EventOf(l).variant \in variants
    /\ EventOf(l).event.tag \in tags

TestVariants == {"TestStringTime", "TestFloatTime"}

\* the line filter drops the line: `continue`
SkipLine(l) ==
    /\ ReadLine(l)
    /\ SkipTable[l]
    /\ UNCHANGED <<r, suite_index, current_suite_maybe, tests, outcome, hist>>

\* DecodeError with the line dropped instead of the Err returned
DecodeErrorSkipped(l) ==
    /\ ReadLine(l)
    /\ ~SkipTable[l]
    /\ ~DecodeTable[l].ok
    /\ UNCHANGED <<r, suite_index, current_suite_maybe, tests, outcome, hist>>

\* both decoding attempts fail: parse returns the Err
DecodeError(l) ==
    /\ ReadLine(l)
    /\ ~SkipTable[l]
    /\ ~DecodeTable[l].ok
    /\ outcome' = [kind |-> "Err", report |-> <<>>, error |-> Some(DecodeTable[l].err)]
    /\ UNCHANGED <<r, suite_index, current_suite_maybe, tests, hist>>

\* SuiteEvent::Started
SuiteStarted(l) ==
    /\ ReadLine(l)
    /\ IsEvent(l, {"Suite"}, {"started"})
    /\ IF IsSome(current_suite_maybe) \/ DOMAIN tests # {}
       THEN /\ outcome' = Panicked
            /\ UNCHANGED <<r, suite_index, current_suite_maybe, tests, hist>>
       ELSE /\ current_suite_maybe' = Some(NewSuite(suite_index))
            /\ suite_index' = suite_index + 1
            /\ hist' = Append(hist, Seen(EventOf(l)))
            /\ UNCHANGED <<r, tests, outcome>>

\* SuiteFinished without its assert_eq! on the pending tests
SuiteFinishedUnchecked(l) ==
    /\ ReadLine(l)
    /\ IsEvent(l, {"Suite"}, {"ok", "failed"})
    /\ IF ~IsSome(current_suite_maybe)
       THEN /\ outcome' = Panicked
            /\ UNCHANGED <<r, suite_index, current_suite_maybe, tests, hist>>
       ELSE /\ r' = Append(r, Unwrap(current_suite_maybe))
            /\ current_suite_maybe' = None
            /\ hist' = Append(hist, Seen(EventOf(l)))
            /\ UNCHANGED <<suite_index, tests, outcome>>

\* SuiteEvent::Ok | SuiteEvent::Failed
SuiteFinished(l) ==
    /\ ReadLine(l)
    /\ IsEvent(l, {"Suite"}, {"ok", "failed"})
    /\ IF DOMAIN tests # {} \/ ~IsSome(current_suite_maybe)
       THEN /\ outcome' = Panicked
            /\ UNCHANGED <<r, suite_index, current_suite_maybe, tests, hist>>
       ELSE /\ r' = Append(r, Unwrap(current_suite_maybe))
            /\ current_suite_maybe' = None
            /\ hist' = Append(hist, Seen(EventOf(l)))
            /\ UNCHANGED <<suite_index, tests, outcome>>

\* TestOutsideSuite with the event dropped instead of the panic
TestOutsideSuiteDropped(l) ==
    /\ ReadLine(l)
    /\ IsEvent(l, TestVariants, TestTags)
    /\ ~IsSome(current_suite_maybe)
    /\ UNCHANGED <<r, suite_index, current_suite_maybe, tests, outcome, hist>>

\* a test event with no suite to take: expect("Test event found outside of
\* suite!") panics, whatever the event
TestOutsideSuite(l) ==
    /\ ReadLine(l)
    /\ IsEvent(l, TestVariants, TestTags)
    /\ ~IsSome(current_suite_maybe)
    /\ outcome' = Panicked
    /\ UNCHANGED <<r, suite_index, current_suite_maybe, tests, hist>>

\* the head of the test arm: the suite is taken out of current_suite_maybe
\* and e.get_duration() has returned
TestArm(l, tags) ==
    /\ ReadLine(l)
    /\ IsEvent(l, TestVariants, tags)
    /\ IsSome(current_suite_maybe)
    /\ ~get_duration(EventOf(l)).panic

\* a panic inside the test arm drops the suite that was taken
PanicInArm ==
    /\ outcome' = Panicked
    /\ current_suite_maybe' = None

\* the test arm ends: current_suite_maybe = Some(current_suite)
PutBack(l, suite) ==
    /\ current_suite_maybe' = Some(suite)
    /\ hist' = Append(hist, Seen(EventOf(l)))
    /\ UNCHANGED <<r, suite_index, outcome>>

\* e.get_duration() panics on the exec_time text, the suite taken
DurationPanic(l) ==
    /\ ReadLine(l)
    /\ IsEvent(l, TestVariants, TestTags)
    /\ IsSome(current_suite_maybe)
    /\ get_duration(EventOf(l)).panic
    /\ PanicInArm
    /\ UNCHANGED <<r, suite_index, tests, hist>>

\* TestStarted without the assert! on the result of the insert
TestStartedUnchecked(l) ==
    /\ TestArm(l, {"started"})
    /\ \E now \in env.instants :
         /\ tests' = MapInsert(tests, EventOf(l).event.name, [start_time |-> now])
         /\ PutBack(l, Unwrap(current_suite_maybe))

\* TestEvent::Started
TestStarted(l) ==
    /\ TestArm(l, {"started"})
    /\ \E now \in env.instants :
         LET name == EventOf(l).event.name
         IN  /\ tests' = MapInsert(tests, name, [start_time |-> now])
             /\ IF name \in DOMAIN tests
                THEN PanicInArm /\ UNCHANGED <<r, suite_index, hist>>
                ELSE PutBack(l, Unwrap(current_suite_maybe))

\* TestOk without the unwrap of the removed entry
TestOkUnchecked(l) ==
    /\ TestArm(l, {"ok"})
    /\ tests' = MapRemove(tests, EventOf(l).event.name)
    /\ PutBack(l, AddTestcase(Unwrap(current_suite_maybe),
                              SuccessCase(EventOf(l).event.name,
                                          get_duration(EventOf(l)).value)))

\* TestEvent::Ok
TestOk(l) ==
    /\ TestArm(l, {"ok"})
    /\ \E now \in env.instants :
         LET name == EventOf(l).event.name
             duration == get_duration(EventOf(l)).value
         IN  IF name \notin DOMAIN tests
             THEN PanicInArm /\ UNCHANGED <<r, suite_index, tests, hist>>
             ELSE /\ tests' = MapRemove(tests, name)
                  /\ PutBack(l, AddTestcase(Unwrap(current_suite_maybe),
                                            SuccessCase(name, duration)))

\* TestFailed with stderr kept next to the message that was guessed
TestFailedKeepsRaw(l) ==
    /\ TestArm(l, {"failed"})
    /\ \E now \in env.instants :
         LET e == EventOf(l)
             name == e.event.name
             stdout == e.event.stdout
             stderr == e.event.stderr
             duration == get_duration(e).value
             error_message == detect_error(stdout, stderr)
             time == trunc(precision,
                           IF IsSome(duration) THEN Unwrap(duration)
                           ELSE detail_get_duration(tests[name], now))
             msg == truncate(Unwrap(error_message), max_out_len)
             out == truncate(Unwrap(stdout), max_out_len)
             err == truncate(Unwrap(stderr), max_out_len)
             failure == FailureCase(name, time)
         IN  IF name \notin DOMAIN tests
             THEN PanicInArm /\ UNCHANGED <<r, suite_index, tests, hist>>
             ELSE /\ tests' = MapRemove(tests, name)
                  /\ IF IsSome(error_message)
                     THEN IF msg.panic
                          THEN PanicInArm /\ UNCHANGED <<r, suite_index, hist>>
                          ELSE PutBack(l, AddTestcase(Unwrap(current_suite_maybe),
                                  [failure EXCEPT !.system_out = Some(msg.value),
                                                  !.system_err = stderr]))
                     ELSE IF \/ IsSome(stdout) /\ out.panic
                             \/ IsSome(stderr) /\ err.panic
                          THEN PanicInArm /\ UNCHANGED <<r, suite_index, hist>>
                          ELSE PutBack(l, AddTestcase(Unwrap(current_suite_maybe),
                                  [failure EXCEPT
                                     !.system_out = IF IsSome(stdout)
                                                    THEN Some(out.value) ELSE None,
                                     !.system_err = IF IsSome(stderr)
                                                    THEN Some(err.value) ELSE None]))

\* TestEvent::Failed
TestFailed(l) ==
    /\ TestArm(l, {"failed"})
    /\ \E now \in env.instants :
         LET e == EventOf(l)
             name == e.event.name
             stdout == e.event.stdout
             stderr == e.event.stderr
             duration == get_duration(e).value
             error_message == detect_error(stdout, stderr)
             time == trunc(precision,
                           IF IsSome(duration) THEN Unwrap(duration)
                           ELSE detail_get_duration(tests[name], now))
             msg == truncate(Unwrap(error_message), max_out_len)
             out == truncate(Unwrap(stdout), max_out_len)
             err == truncate(Unwrap(stderr), max_out_len)
             failure == FailureCase(name, time)
         IN  IF name \notin DOMAIN tests
             THEN PanicInArm /\ UNCHANGED <<r, suite_index, tests, hist>>
             ELSE /\ tests' = MapRemove(tests, name)
                  /\ IF IsSome(error_message)
                     THEN IF msg.panic
                          THEN PanicInArm /\ UNCHANGED <<r, suite_index, hist>>
                          ELSE PutBack(l, AddTestcase(Unwrap(current_suite_maybe),
                                  [failure EXCEPT !.system_out = Some(msg.value)]))
                     ELSE IF \/ IsSome(stdout) /\ out.panic
                             \/ IsSome(stderr) /\ err.panic
                          THEN PanicInArm /\ UNCHANGED <<r, suite_index, hist>>
                          ELSE PutBack(l, AddTestcase(Unwrap(current_suite_maybe),
                                  [failure EXCEPT
                                     !.system_out = IF IsSome(stdout)
                                                    THEN Some(out.value) ELSE None,
                                     !.system_err = IF IsSome(stderr)
                                                    THEN Some(err.value) ELSE None]))

\* TestIgnored without the case added to the suite
TestIgnoredDropped(l) ==
    /\ TestArm(l, {"ignored"})
    /\ LET name == EventOf(l).event.name
       IN  IF name \notin DOMAIN tests
           THEN PanicInArm /\ UNCHANGED <<r, suite_index, tests, hist>>
           ELSE /\ tests' = MapRemove(tests, name)
                /\ PutBack(l, Unwrap(current_suite_maybe))

\* TestEvent::Ignored
TestIgnored(l) ==
    /\ TestArm(l, {"ignored"})
    /\ LET name == EventOf(l).event.name
       IN  IF name \notin DOMAIN tests
           THEN PanicInArm /\ UNCHANGED <<r, suite_index, tests, hist>>
           ELSE /\ tests' = MapRemove(tests, name)
                /\ PutBack(l, AddTestcase(Unwrap(current_suite_maybe),
                                          SkippedCase(name)))

\* TestTimeout taken as the end of the test: the pending entry removed
TestTimeoutRemoves(l) ==
    /\ TestArm(l, {"timeout"})
    /\ PutBack(l, Unwrap(current_suite_maybe))
    /\ tests' = MapRemove(tests, EventOf(l).event.name)

\* TestEvent::Timeout
TestTimeout(l) ==
    /\ TestArm(l, {"timeout"})
    /\ PutBack(l, Unwrap(current_suite_maybe))
    /\ UNCHANGED tests

\* EndOfInput with the suite still active added to the report
EndOfInputFlushes ==
    /\ outcome = Running
    /\ outcome' = [kind |-> "Ok",
                   report |-> IF IsSome(current_suite_maybe)
                              THEN Append(r, Unwrap(current_suite_maybe))
                              ELSE r,
                   error |-> None]
    /\ UNCHANGED <<env, precision, max_out_len, line, n_read, r, suite_index,
                   current_suite_maybe, tests, hist>>

\* the input has no more lines: Ok(r)
EndOfInput ==
    /\ outcome = Running
    /\ outcome' = [kind |-> "Ok", report |-> r, error |-> None]
    /\ UNCHANGED <<env, precision, max_out_len, line, n_read, r, suite_index,
                   current_suite_maybe, tests, hist>>

Next ==
    \/ \E l \in env.lines : SkipLine(l)
    \/ \E l \in env.lines : DecodeError(l)
    \/ \E l \in env.lines : SuiteStarted(l)
    \/ \E l \in env.lines : SuiteFinished(l)
    \/ \E l \in env.lines : TestOutsideSuite(l)
    \/ \E l \in env.lines : DurationPanic(l)
    \/ \E l \in env.lines : TestStarted(l)
    \/ \E l \in env.lines : TestOk(l)
    \/ \E l \in env.lines : TestFailed(l)
    \/ \E l \in env.lines : TestIgnored(l)
    \/ \E l \in env.lines : TestTimeout(l)
    \/ EndOfInput

Spec == Init /\ [][Next]_vars

SpecTime == InitTime /\ [][Next]_vars

SpecDecode == InitDecode /\ [][Next]_vars

SpecOutput == InitOutput /\ [][Next]_vars

SpecLimit == InitLimit /\ [][Next]_vars

(***************************************************************************)
(* Properties.  The conditions below are stated on the state, the line    *)
(* read and the events of hist, apart from the handlers they are about.    *)
(***************************************************************************)

\* a suite is active
Active == IsSome(current_suite_maybe)

\* the names of the pending tests
Pending == DOMAIN tests

\* this step reads one more line of the input
LineStep == outcome = Running /\ n_read' = n_read + 1

Aborted(o) == o.kind \in {"Err", "Panic"}

IsSuiteStart(x) == x.kind = "suite" /\ x.tag = "started"

IsSuiteEnd(x) == x.kind = "suite" /\ x.tag \in {"ok", "failed"}

IsCompletion(x) == x.kind = "test" /\ x.tag \in {"ok", "failed", "ignored"}

\* the k-th smallest member of a set of numbers
KthOf(S, k) == CHOOSE i \in S : Cardinality({j \in S : j < i}) = k - 1

\* the completion events between the k-th suite start and the k-th suite end
CompletionsOf(h, k) ==
    LET starts == {i \in 1..Len(h) : IsSuiteStart(h[i])}
        ends == {i \in 1..Len(h) : IsSuiteEnd(h[i])}
    IN  SelectSeq(SubSeq(h, KthOf(starts, k) + 1, KthOf(ends, k) - 1), IsCompletion)

StatusOf(tag) ==
    CASE tag = "ok" -> "Success" [] tag = "failed" -> "Failure"
      [] tag = "ignored" -> "Skipped"

\* the fully-qualified name a case stands for
QualifiedName(tc) ==
    IF IsSome(tc.classname) /\ Unwrap(tc.classname) # <<>>
    THEN Unwrap(tc.classname) \o <<":", ":">> \o tc.name
    ELSE tc.name

\* C1: when the input ends in Idle after a stream that follows the state
\* table, the report holds one suite per suite start and end pair, and each
\* suite one case per TestOk, TestFailed or TestIgnored between them, in
\* their order, with status Success, Failure, Skipped; the stream
\* [SuiteStarted, TestStarted(m::t), TestOk(m::t), SuiteOk] gives one suite
\* with one Success case named t of module path m.
C1_ReportFollowsStream ==
    (outcome.kind = "Ok" /\ ~Active) =>
        LET rep == outcome.report
            ends == {i \in 1..Len(hist) : IsSuiteEnd(hist[i])}
            starts == {i \in 1..Len(hist) : IsSuiteStart(hist[i])}
        IN  /\ Len(rep) = Cardinality(starts)
            /\ Len(rep) = Cardinality(ends)
            /\ \A k \in 1..Len(rep) :
                 LET done == CompletionsOf(hist, k)
                     cases == rep[k].testcases
                 IN  /\ Len(cases) = Len(done)
                     /\ \A i \in 1..Len(cases) :
                          /\ cases[i].status = StatusOf(done[i].tag)
                          /\ QualifiedName(cases[i]) = done[i].name
            /\ hist = <<[kind |-> "suite", tag |-> "started", name |-> <<>>],
                        [kind |-> "test", tag |-> "started", name |-> NameMT],
                        [kind |-> "test", tag |-> "ok", name |-> NameMT],
                        [kind |-> "suite", tag |-> "ok", name |-> <<>>]>>
                 => /\ Len(rep) = 1
                    /\ Len(rep[1].testcases) = 1
                    /\ rep[1].testcases[1].status = "Success"
                    /\ rep[1].testcases[1].name = <<"t">>
                    /\ rep[1].testcases[1].classname = Some(<<"m">>)

\* a report of one suite with a Failure case followed by a Skipped case
C1_Witness ==
    /\ outcome.kind = "Ok"
    /\ ~Active
    /\ Len(outcome.report) = 1
    /\ Len(outcome.report[1].testcases) = 2
    /\ outcome.report[1].testcases[1].status = "Failure"
    /\ outcome.report[1].testcases[2].status = "Skipped"

\* C2: a SuiteOk or SuiteFailed handled while a test is pending aborts the
\* run; the suite is not appended to the report.
C2_SuiteEndWithPendingAborts ==
    [][(/\ LineStep
        /\ IsEvent(line', {"Suite"}, {"ok", "failed"})
        /\ Pending # {})
       => (outcome'.kind = "Panic" /\ r' = r)]_vars

\* the run aborted on a suite end with a test pending in the active suite
C2_Witness ==
    /\ outcome.kind = "Panic"
    /\ IsEvent(line, {"Suite"}, {"ok", "failed"})
    /\ Active
    /\ Pending # {}

\* the test cases of the active suite, none when no suite is active
ActiveCases(suite_maybe) ==
    IF IsSome(suite_maybe) THEN Unwrap(suite_maybe).testcases ELSE <<>>

\* C3: a TestOk, TestFailed or TestIgnored whose name is not pending aborts
\* the run, whichever of the three it is, and no case is emitted for it.
C3_UnknownCompletionAborts ==
    [][(/\ LineStep
        /\ IsEvent(line', TestVariants, {"ok", "failed", "ignored"})
        /\ EventOf(line').event.name \notin Pending)
       => /\ outcome'.kind = "Panic"
          /\ r' = r
          /\ Len(ActiveCases(current_suite_maybe')) <= Len(ActiveCases(current_suite_maybe))
          /\ hist' = hist]_vars

\* the run aborted on a TestIgnored for a name that an earlier event of the
\* same suite had already completed
C3_Witness ==
    /\ outcome.kind = "Panic"
    /\ IsEvent(line, TestVariants, {"ignored"})
    /\ hist # <<>>
    /\ IsCompletion(hist[Len(hist)])
    /\ hist[Len(hist)].name = EventOf(line).event.name
    /\ EventOf(line).event.name \notin Pending

\* the event of the line has duration members get_duration accepts
WellTimed(l) == ~get_duration(EventOf(l)).panic

\* C4: a TestStarted(n) handled in an active suite is accepted exactly when
\* n is not pending: with n pending the run aborts, otherwise (also after n
\* has completed) n is added to the pending set.
C4_StartedOnlyWhenNotPending ==
    [][(/\ LineStep
        /\ IsEvent(line', TestVariants, {"started"})
        /\ WellTimed(line')
        /\ Active)
       => IF EventOf(line').event.name \in Pending
          THEN outcome'.kind = "Panic"
          ELSE /\ outcome' = Running
               /\ DOMAIN tests' = Pending \cup {EventOf(line').event.name}]_vars

\* n was started again right after it had completed, and is pending
C4_Witness ==
    /\ outcome = Running
    /\ IsEvent(line, TestVariants, {"started"})
    /\ Len(hist) >= 2
    /\ IsCompletion(hist[Len(hist) - 1])
    /\ hist[Len(hist) - 1].name = EventOf(line).event.name
    /\ hist[Len(hist)].tag = "started"
    /\ EventOf(line).event.name \in Pending

\* C5: an event is accepted only in the suite-activity state its row of the
\* transition table names: a test event (Started, Ok, Failed, Ignored,
\* Timeout) while Idle aborts, a SuiteStarted while a suite is active aborts,
\* a SuiteOk or SuiteFailed while Idle aborts.
C5_EventsOnlyInTheirState ==
    [][LineStep =>
        /\ (IsEvent(line', TestVariants, TestTags) /\ ~Active)
               => outcome'.kind = "Panic"
        /\ (IsEvent(line', {"Suite"}, {"started"}) /\ Active)
               => outcome'.kind = "Panic"
        /\ (IsEvent(line', {"Suite"}, {"ok", "failed"}) /\ ~Active)
               => outcome'.kind = "Panic"
        /\ (outcome' = Running /\ hist' # hist)
               => (Active <=> ~IsEvent(line', {"Suite"}, {"started"}))]_vars

\* the run aborted on a TestTimeout read while Idle, after a suite had ended
C5_Witness ==
    /\ outcome.kind = "Panic"
    /\ IsEvent(line, TestVariants, {"timeout"})
    /\ ~Active
    /\ hist # <<>>
    /\ IsSuiteEnd(hist[Len(hist)])

\* the first character of the line that is not whitespace is "{"
OpensObject(l) ==
    \E i \in 1..Len(l.head) :
        /\ l.head[i] = "{"
        /\ \A j \in 1..(i - 1) : l.head[j] \in {" ", "\t", "\n", "\r"}

\* C6: a decode error ends the run with an Err and no report, also after
\* suites were completed; once the run has ended with an Err or a panic no
\* further line is handled and no report is ever returned.
C6_ErrorsAreFatal ==
    [][/\ (LineStep /\ OpensObject(line') /\ ~DecodeTable[line'].ok)
            => (outcome'.kind = "Err" /\ outcome'.report = <<>> /\ r' = r)
       /\ Aborted(outcome) => UNCHANGED vars
       /\ Aborted(outcome') => outcome'.report = <<>>
       /\ outcome'.kind = "Ok" => outcome = Running]_vars

\* the run ended with a decode error after a suite had been completed
C6_Witness ==
    /\ outcome.kind = "Err"
    /\ Len(r) >= 1
    /\ outcome.report = <<>>
    /\ OpensObject(line)

IndexText == <<"0", "1", "2", "3", "4", "5", "6", "7", "8", "9">>

\* "<prefix> #k" for k < 10
SuiteNameOf(k) == suite_name_prefix \o <<" ", "#", IndexText[k + 1]>>

\* C7: the k-th SuiteStarted (from 0) creates the suite named "<prefix> #k":
\* the suites of the report carry the indices 0, 1, 2, ... in report order,
\* whether the earlier suites ended with SuiteOk or SuiteFailed.
C7_SuiteIndices ==
    /\ \A k \in 1..Len(r) : r[k].name = SuiteNameOf(k - 1)
    /\ Active => Unwrap(current_suite_maybe).name = SuiteNameOf(Len(r))
    /\ suite_index = Cardinality({i \in 1..Len(hist) : IsSuiteStart(hist[i])})

\* two suites in the report, one ended by SuiteFailed and one by SuiteOk,
\* and a third suite active
C7_Witness ==
    /\ Len(r) = 2
    /\ Active
    /\ \E i, j \in 1..Len(hist) :
         /\ IsSuiteEnd(hist[i]) /\ hist[i].tag = "failed"
         /\ IsSuiteEnd(hist[j]) /\ hist[j].tag = "ok"

\* C8: a TestTimeout(n) handled while a suite is active changes nothing:
\* pending set, cases of the active suite, report and suite index stay as
\* they were and the run goes on (so n stays pending, a later completion of
\* n is accepted, a suite end still aborts until then).
C8_TimeoutChangesNothing ==
    [][(/\ LineStep
        /\ IsEvent(line', TestVariants, {"timeout"})
        /\ WellTimed(line')
        /\ Active)
       => /\ UNCHANGED <<tests, current_suite_maybe, r, suite_index>>
          /\ outcome' = Running]_vars

\* a test that was pending at a TestTimeout completed afterwards with its
\* case emitted
C8_Witness ==
    /\ outcome = Running
    /\ Len(hist) >= 3
    /\ hist[Len(hist) - 1].tag = "timeout"
    /\ hist[Len(hist) - 2] = [kind |-> "test", tag |-> "started",
                              name |-> hist[Len(hist) - 1].name]
    /\ IsCompletion(hist[Len(hist)])
    /\ hist[Len(hist)].name = hist[Len(hist) - 1].name
    /\ Active
    /\ Len(Unwrap(current_suite_maybe).testcases) = 1

\* C9: a line whose first character that is not whitespace is not "{" (an
\* empty or all-whitespace line included) is dropped: no error, and the
\* state of the fold is as before the line.
C9_OtherLinesDropped ==
    [][(LineStep /\ ~OpensObject(line'))
       => UNCHANGED <<r, suite_index, current_suite_maybe, tests, outcome, hist>>]_vars

\* a line with a "{" after other text was dropped with a test pending
C9_Witness ==
    /\ outcome = Running
    /\ line = TextLine(<<" ", "o", "k", "{">>)
    /\ Active
    /\ Pending # {}

\* C10: a Success case never has an unspecified duration (the duration of
\* the event's members, else the wall-clock time since TestStarted).
C10_SuccessHasDuration ==
    /\ \A k \in 1..Len(r) : \A i \in 1..Len(r[k].testcases) :
         r[k].testcases[i].status = "Success" => IsSome(r[k].testcases[i].time)
    /\ \A i \in 1..Len(ActiveCases(current_suite_maybe)) :
         ActiveCases(current_suite_maybe)[i].status = "Success"
             => IsSome(ActiveCases(current_suite_maybe)[i].time)

\* the case added last to the active suite
LastCase ==
    ActiveCases(current_suite_maybe)[Len(ActiveCases(current_suite_maybe))]

\* the line read last was a test event of these tags and was handled
\* without abort
Handled(tags) == outcome = Running /\ IsEvent(line, TestVariants, tags)

\* the text holds the separator "::"
HasSeparator(s) == \E i \in 1..(Len(s) - 1) : s[i] = ":" /\ s[i + 1] = ":"

\* name is the last "::"-separated segment of n and module the rest
SplitsAs(n, name, module) ==
    /\ ~HasSeparator(name)
    /\ IF HasSeparator(n) THEN n = module \o <<":", ":">> \o name
       ELSE name = n /\ module = <<>>

\* the module path of a case, empty when it has none
ModulePathOf(tc) == IF IsSome(tc.classname) THEN Unwrap(tc.classname) ELSE <<>>

C18_IdleHasNoPending ==
    (outcome.kind \in {"Running", "Ok"} /\ ~Active) => Pending = {}

\* Idle again after a suite in which a test had been pending and completed
C18_Witness ==
    /\ outcome = Running
    /\ ~Active
    /\ hist # <<>>
    /\ IsSuiteEnd(hist[Len(hist)])
    /\ \E i \in 1..Len(hist) : IsCompletion(hist[i])
    /\ Pending = {}

\* C20: when the input ends with a suite still active, with or without
\* pending tests, parse returns Ok with the suites completed before and
\* nothing of the active suite.
C20_EndInsideSuite ==
    [][(/\ outcome = Running
        /\ n_read' = n_read
        /\ outcome' # outcome
        /\ Active)
       => /\ outcome'.kind = "Ok"
          /\ Len(outcome'.report)
               = Cardinality({i \in 1..Len(hist) : IsSuiteEnd(hist[i])})
          /\ \A k \in 1..Len(outcome'.report) :
               /\ outcome'.report[k].name # Unwrap(current_suite_maybe).name
               /\ Len(outcome'.report[k].testcases) = Len(CompletionsOf(hist, k))]_vars

\* the input ended inside the second suite, which held a case and a
\* pending test
C20_Witness ==
    /\ outcome.kind = "Ok"
    /\ Active
    /\ Pending # {}
    /\ Len(Unwrap(current_suite_maybe).testcases) = 1
    /\ Len(outcome.report) = 1

\* x is raw cut back toward zero to a whole number of units
CutTowardZero(raw, unit, x) ==
    /\ x % unit = 0
    /\ IF raw >= 0 THEN x <= raw /\ raw - x < unit
       ELSE x >= raw /\ x - raw < unit

\* the cases of the suite as the step leaves it
CasesAfter == ActiveCases(current_suite_maybe')

\* C19: the duration of a Failure case is cut to the precision, whether it
\* came from the event's members or from the wall clock: to whole seconds
\* under LiteralSeconds, to whole microseconds under MilliSeconds, toward
\* zero; the duration of a Success case that came from the event's members
\* is kept to the nanosecond.
C19_FailureDurationCut ==
    [][(LineStep /\ outcome' = Running)
       => LET given == get_duration(EventOf(line')).value
              name == EventOf(line').event.name
              raws == IF IsSome(given) THEN {Unwrap(given)}
                      ELSE {now - tests[name].start_time : now \in env.instants}
              unit == IF precision = "LiteralSeconds" THEN 1000000000 ELSE 1000
              tc == CasesAfter[Len(CasesAfter)]
          IN  /\ IsEvent(line', TestVariants, {"failed"})
                   => /\ IsSome(tc.time)
                      /\ \E raw \in raws : CutTowardZero(raw, unit, Unwrap(tc.time))
              /\ (IsEvent(line', TestVariants, {"ok"}) /\ IsSome(given))
                   => tc.time = given]_vars

\* under LiteralSeconds a Failure case without duration members got one
\* second out of 1,200,300,400 ns of wall clock
C19_Witness ==
    /\ Handled({"failed"})
    /\ precision = "LiteralSeconds"
    /\ ~IsSome(get_duration(EventOf(line)).value)
    /\ LastCase.time = Some(1000000000)

\* C16: a line that decodes directly yields that event as it is; a line
\* that fails directly and decodes with every backslash doubled yields the
\* event of the repaired line, and the fold goes on with it; a line that
\* fails both attempts ends the run with a decode error.
C16_RepairOnceAfterFailure ==
    [][(LineStep /\ OpensObject(line'))
       => LET direct == from_str(line')
              retry == from_str(ReplaceLine(line'))
          IN  /\ direct.ok
                   => /\ outcome'.kind # "Err"
                      /\ hist' # hist => hist'[Len(hist')] = Seen(direct.event)
              /\ (~direct.ok /\ retry.ok)
                   => /\ outcome'.kind # "Err"
                      /\ hist' # hist => hist'[Len(hist')] = Seen(retry.event)
              /\ (~direct.ok /\ ~retry.ok) => outcome'.kind = "Err"]_vars

\* a test whose name holds an unescaped backslash was started: the name is
\* pending as written
C16_Witness ==
    /\ outcome = Running
    /\ line = BackslashLine
    /\ ~from_str(line).ok
    /\ <<"t", "\\", "q">> \in Pending

\* C17: the decode error carries the line as it was read from the input
\* and the error text of the first, direct attempt.
C17_ErrorCarriesRawLine ==
    outcome.kind = "Err"
        => /\ Unwrap(outcome.error).line = line
           /\ Unwrap(outcome.error).orig_err = from_str(line).err

\* the failed test of the line just read was recorded
FailedStep ==
    /\ LineStep
    /\ outcome' = Running
    /\ IsEvent(line', TestVariants, {"failed"})

\* the case the step added
NewCase == CasesAfter[Len(CasesAfter)]

\* an optional text with a character that is not whitespace
NonBlank(o) ==
    IsSome(o) /\ \E i \in 1..Len(Unwrap(o)) : ~IsWhitespace(Unwrap(o)[i])

\* the lines of a text
RECURSIVE LinesFrom(_, _)
LinesFrom(s, cur) ==
    IF s = <<>> THEN <<cur>>
    ELSE IF Head(s) = "\n" THEN <<cur>> \o LinesFrom(Tail(s), <<>>)
    ELSE LinesFrom(Tail(s), Append(cur, Head(s)))

\* a line of the form "Error: <non-empty text>"
IsErrorLine(ln) ==
    /\ Len(ln) >= 8
    /\ ln[1] \in {"E", "e"}
    /\ Slice(ln, 2, 7) = <<"r", "r", "o", "r", ":", " ">>

\* the positions of the error lines of a text
ErrorLinesOf(t) == {k \in 1..Len(LinesFrom(t, <<>>)) : IsErrorLine(LinesFrom(t, <<>>)[k])}

\* the last error line of a text that has one
LastErrorLine(t) ==
    LinesFrom(t, <<>>)[CHOOSE k \in ErrorLinesOf(t) : \A j \in ErrorLinesOf(t) : j <= k]

\* C11: when stderr is absent or blank and stdout has a line "Error: ..."
\* anywhere, the failure's message is the last such line, trimmed.
\* The code does not behave so: its pattern ends at the end of the text.
C11_LastErrorLineExtracted ==
    [][LET out == EventOf(line').event.stdout
           err == EventOf(line').event.stderr
       IN  (/\ FailedStep
            /\ ~NonBlank(err)
            /\ IsSome(out)
            /\ ErrorLinesOf(Unwrap(out)) # {}
            /\ Len(LastErrorLine(Unwrap(out))) <= max_out_len)
               => /\ NewCase.system_out = Some(Trim(LastErrorLine(Unwrap(out))))
                  /\ NewCase.system_err = None]_vars

\* C12: when stderr has a character that is not whitespace, the failure's
\* message is stderr as it came, whatever stdout holds.
C12_StderrVerbatim ==
    [][LET err == EventOf(line').event.stderr
       IN  (FailedStep /\ NonBlank(err) /\ Len(Unwrap(err)) <= max_out_len)
               => /\ NewCase.system_out = err
                  /\ NewCase.system_err = None]_vars

\* stderr with blanks around it was stored as the message although stdout
\* ends in an error line
C12_Witness ==
    /\ Handled({"failed"})
    /\ EventOf(line).event.stderr = Some(ErrPanic)
    /\ IsSome(EventOf(line).event.stdout)
    /\ ErrorLinesOf(Unwrap(EventOf(line).event.stdout)) # {}
    /\ LastCase.system_out = Some(ErrPanic)
    /\ LastCase.system_err = None

\* C13: a Failure case stores either the message that was inferred, cut to
\* the maximum, and nothing else, or, without a message, stdout and stderr
\* apart, each cut to the maximum and each only when present.
C13_FailureOutputShape ==
    [][FailedStep
         => LET out == EventOf(line').event.stdout
                err == EventOf(line').event.stderr
                message == detect_error(out, err)
                Cut(o) == IF IsSome(o)
                          THEN Some(truncate(Unwrap(o), max_out_len).value)
                          ELSE None
            IN  IF IsSome(message)
                THEN /\ NewCase.system_out = Cut(message)
                     /\ NewCase.system_err = None
                ELSE /\ NewCase.system_out = Cut(out)
                     /\ NewCase.system_err = Cut(err)]_vars

\* without a message, a long stdout was stored cut and a blank stderr apart
C13_Witness ==
    /\ Handled({"failed"})
    /\ ~IsSome(detect_error(EventOf(line).event.stdout, EventOf(line).event.stderr))
    /\ IsSome(LastCase.system_out)
    /\ Unwrap(LastCase.system_out) # Unwrap(EventOf(line).event.stdout)
    /\ LastCase.system_err = Some(ErrBlank)

\* C14: a text stored through truncate is the text itself when it fits the
\* maximum, and is no longer than the maximum otherwise.
\* The code does not behave so: a text that is cut comes out longer.
C14_TruncatedFits ==
    [][FailedStep
         => LET out == EventOf(line').event.stdout
                err == EventOf(line').event.stderr
                Fits(o, stored) ==
                    IsSome(o)
                      => /\ IsSome(stored)
                         /\ IF Len(Unwrap(o)) <= max_out_len
                            THEN stored = o
                            ELSE Len(Unwrap(stored)) <= max_out_len
            IN  IF IsSome(detect_error(out, err))
                THEN Fits(detect_error(out, err), NewCase.system_out)
                ELSE Fits(out, NewCase.system_out) /\ Fits(err, NewCase.system_err)]_vars

\* C21: cutting a captured text never aborts, whatever the maximum: a
\* failed test that is pending in the active suite, with a duration that
\* resolves, is recorded and the run goes on.
\* The code does not behave so: below the marker's length the subtraction
\* in truncate has no result.
C21_TruncationNeverAborts ==
    [][(/\ LineStep
        /\ IsEvent(line', TestVariants, {"failed"})
        /\ Active
        /\ EventOf(line').event.name \in Pending
        /\ ~get_duration(EventOf(line')).panic)
           => outcome' = Running]_vars

====
